---- MODULE Spec2Model ----
(***************************************************************************)
(* Model of the scp_jp utilities package: the typed HTTP clients for the   *)
(* account-linker service (api/linker.py), the member-management service   *)
(* (api/member_management.py) and the Wikidot identity provider            *)
(* (wd_idp/main.py).                                                       *)
(*                                                                         *)
(* The package holds the client side only.  A client object is immutable   *)
(* after construction (base_url, api_key, _headers); every operation       *)
(* builds one request, awaits one response, calls raise_for_status and     *)
(* then returns the decoded body or a validated schema object.  The remote *)
(* services are the environment: the status code and the body of a         *)
(* response are inputs, drawn from small sets.                             *)
(***************************************************************************)
EXTENDS Integers, Sequences, FiniteSets, TLC

\* ------------------------------------------------------------------ bounds
NCallers == 1      \* concurrent invocations of client operations
NDiscord == 2      \* distinct Discord ids used as arguments
NWikidot == 2      \* distinct Wikidot ids used as arguments
NTokens  == 2      \* distinct code / state / verifier / challenge values

Callers    == 1..NCallers
DiscordIds == 1..NDiscord
WikidotIds == 1..NWikidot
Tokens     == 1..NTokens

\* --------------------------------------------------------- program constants
\* member_management.py: class PermissionLevel(IntEnum)
VISITOR      == 10
CONTRIBUTOR  == 20
MODERATOR    == 30
ADMIN        == 40
SYSTEM_ADMIN == 50
PermissionLevel == {VISITOR, CONTRIBUTOR, MODERATOR, ADMIN, SYSTEM_ADMIN}

\* member_management.py: class Status(IntEnum)
PENDING              == 0
APPROVED             == 1
DECLINED             == 2
CANCELLED_OR_MISSING == 9
Status == {PENDING, APPROVED, DECLINED, CANCELLED_OR_MISSING}

\* member_management.py: class DeclineReasonType(IntEnum)
DeclineReasonType == {1, 2, 3, 4, 5, 6, 9}

\* The status codes a service answers with: success, and the error codes the
\* docstrings of the client name (400, 403, 404, 500).
StatusCodes == {200, 400, 403, 404, 500}

\* httpx.Response.is_success, the test raise_for_status makes.
is_success(status) == status >= 200 /\ status <= 299

\* -------------------------------------------------------------------- state
VARIABLES
    pc,        \* pc[c]: "idle", "sent" (awaiting the response) or "done"
    request,   \* request[c]: the request the operation built
    response,  \* response[c]: the status code of the response received
    outcome    \* outcome[c]: what the operation returned or raised

vars == <<pc, request, response, outcome>>

NoRequest == [op |-> "none"]
NoResponse == [status_code |-> 0]
NoOutcome == [kind |-> "none"]

Init ==
    /\ pc = [c \in Callers |-> "idle"]
    /\ request = [c \in Callers |-> NoRequest]
    /\ response = [c \in Callers |-> NoResponse]
    /\ outcome = [c \in Callers |-> NoOutcome]

\* ------------------------------------------------------- the request built
\* LinkerAPIClient._make_request / MemberManagementAPIClient._make_request:
\* url = base_url + endpoint, the bearer header of the client, timeout 30 s.
\* `service` names the client object (and so the base_url and the api key).
make_request(service, method, endpoint, params, json_data) ==
    [service  |-> service,
     method   |-> method,
     endpoint |-> endpoint,
     params   |-> params,
     json     |-> json_data,
     headers  |-> [Authorization |-> <<"Bearer", service>>],
     timeout  |-> 30]

NoParams == [none |-> TRUE]
NoJson   == [none |-> TRUE]

\* DiscordAccountSchema(id, username, avatar).model_dump(); the username and
\* the avatar are carried along and never inspected by the client.
DiscordAccountSchema(d) == [id |-> d, username |-> <<"name", d>>, avatar |-> <<"avatar", d>>]

\* An operation starts: it builds its request and awaits the response.
Send(c, op, req) ==
    /\ pc[c] = "idle"
    /\ pc' = [pc EXCEPT ![c] = "sent"]
    /\ request' = [request EXCEPT ![c] = [op |-> op, req |-> req]]
    /\ response' = [response EXCEPT ![c] = NoResponse]
    /\ outcome' = [outcome EXCEPT ![c] = NoOutcome]

\* ----------------------------------------------------------- linker client
flow_start(c, d) ==
    Send(c, "flow_start",
         make_request("linker", "POST", <<"/v1/start">>, NoParams,
                      [discord |-> DiscordAccountSchema(d)]))

flow_callback(c, code, state) ==
    Send(c, "flow_callback",
         make_request("linker", "GET", <<"/v1/callback">>,
                      [code |-> code, state |-> state], NoJson))

flow_recheck(c, d) ==
    Send(c, "flow_recheck",
         make_request("linker", "POST", <<"/v1/recheck">>, NoParams,
                      [discord |-> DiscordAccountSchema(d)]))

unlink_account(c, d, w) ==
    Send(c, "unlink_account",
         make_request("linker", "PATCH", <<"/v1/unlink">>,
                      [discord_id |-> d, wikidot_id |-> w], NoJson))

relink_account(c, d, w) ==
    Send(c, "relink_account",
         make_request("linker", "PATCH", <<"/v1/relink">>,
                      [discord_id |-> d, wikidot_id |-> w], NoJson))

\* ------------------------------------------------ member-management client
update_site_member_permission(c, site, user, level) ==
    Send(c, "update_site_member_permission",
         make_request("member_management", "PATCH",
                      <<"/v1/sites/", site, "/members/", user, "/permission">>,
                      NoParams, [site_permission_level |-> level]))

check_site_member_permission(c, site, user, level) ==
    Send(c, "check_site_member_permission",
         make_request("member_management", "GET",
                      <<"/v1/sites/", site, "/members/", user, "/permission/check">>,
                      [permission_level |-> level], NoJson))

change_site_member_privilege(c, site, user, action) ==
    Send(c, "change_site_member_privilege",
         make_request("member_management", "POST",
                      <<"/v1/sites/", site, "/members/", user, "/privilege">>,
                      NoParams, [action |-> action]))

approve_application_request(c, rid, reviewer) ==
    Send(c, "approve_application_request",
         make_request("member_management", "POST",
                      <<"/v1/application/requests/", rid, "/approve">>,
                      NoParams, [reviewer_id |-> reviewer]))

decline_application_request(c, rid, reviewer, reason) ==
    Send(c, "decline_application_request",
         make_request("member_management", "POST",
                      <<"/v1/application/requests/", rid, "/decline">>,
                      NoParams,
                      [reviewer_id |-> reviewer,
                       decline_reason_type |-> reason,
                       decline_reason_detail |-> <<"detail", reason>>]))

\* ------------------------------------------------------------------ strings
\* A Python str is modelled as the sequence of its code points, and bytes as
\* a sequence of numbers 0..255.

\* str.encode(): UTF-8.
EncodeCodePoint(cp) ==
    IF cp < 128 THEN <<cp>>
    ELSE IF cp < 2048 THEN <<192 + (cp \div 64), 128 + (cp % 64)>>
    ELSE IF cp < 65536
         THEN <<224 + (cp \div 4096), 128 + ((cp \div 64) % 64), 128 + (cp % 64)>>
    ELSE <<240 + (cp \div 262144), 128 + ((cp \div 4096) % 64),
           128 + ((cp \div 64) % 64), 128 + (cp % 64)>>

RECURSIVE encode(_)
encode(str) ==
    IF str = <<>> THEN <<>>
    ELSE EncodeCodePoint(Head(str)) \o encode(Tail(str))

\* str.rstrip(ch) for a one-character argument.
RECURSIVE rstrip(_, _)
rstrip(str, ch) ==
    IF Len(str) > 0 /\ str[Len(str)] = ch
    THEN rstrip(SubSeq(str, 1, Len(str) - 1), ch)
    ELSE str

\* ------------------------------------------------------------------ SHA-256
\* hashlib.sha256 (FIPS 180-4).  A 32-bit word is the pair <<hi, lo>> of its
\* 16-bit halves, so that every intermediate value stays below 2^31.
SHA256_K ==
    <<
       <<17034, 12184>>, <<28983, 17553>>, <<46528, 64463>>, <<59829, 56229>>,
       <<14678, 49755>>, <<23025, 4593>>, <<37439, 33444>>, <<43804, 24277>>,
       <<55303, 43672>>, <<4739, 23297>>, <<9265, 34238>>, <<21772, 32195>>,
       <<29374, 23924>>, <<32990, 45566>>, <<39900, 1703>>, <<49563, 61812>>,
       <<58523, 27073>>, <<61374, 18310>>, <<4033, 40390>>, <<9228, 41420>>,
       <<11753, 11375>>, <<19060, 33962>>, <<23728, 43484>>, <<30457, 35034>>,
       <<38974, 20818>>, <<43057, 50797>>, <<45059, 10184>>, <<48985, 32711>>,
       <<50912, 3059>>, <<54695, 37191>>, <<1738, 25425>>, <<5161, 10599>>,
       <<10167, 2693>>, <<11803, 8504>>, <<19756, 28156>>, <<21304, 3347>>,
       <<25866, 29524>>, <<30314, 2747>>, <<33218, 51502>>, <<37490, 11397>>,
       <<41663, 59553>>, <<43034, 26187>>, <<49739, 35696>>, <<51052, 20899>>,
       <<53650, 59417>>, <<54937, 1572>>, <<62478, 13701>>, <<4202, 41072>>,
       <<6564, 49430>>, <<7735, 27656>>, <<10056, 30540>>, <<13488, 48309>>,
       <<14620, 3251>>, <<20184, 43594>>, <<23452, 51791>>, <<26670, 28659>>,
       <<29839, 33518>>, <<30885, 25455>>, <<33992, 30740>>, <<36039, 520>>,
       <<37054, 65530>>, <<42064, 27883>>, <<48889, 41975>>, <<50801, 30962>> >>

SHA256_H0 ==
    <<
       <<27145, 58983>>, <<47975, 44677>>, <<15470, 62322>>, <<42319, 62778>>,
       <<20750, 21119>>, <<39685, 26764>>, <<8067, 55723>>, <<23520, 52505>> >>

RECURSIVE Xor16(_, _, _)
Xor16(a, b, n) ==
    IF n = 0 THEN 0
    ELSE ((a + b) % 2) + 2 * Xor16(a \div 2, b \div 2, n - 1)

RECURSIVE And16(_, _, _)
And16(a, b, n) ==
    IF n = 0 THEN 0
    ELSE ((a % 2) * (b % 2)) + 2 * And16(a \div 2, b \div 2, n - 1)

WXor(x, y) == <<Xor16(x[1], y[1], 16), Xor16(x[2], y[2], 16)>>
WAnd(x, y) == <<And16(x[1], y[1], 16), And16(x[2], y[2], 16)>>
WNot(x)    == <<65535 - x[1], 65535 - x[2]>>
WAdd(x, y) ==
    LET lo == x[2] + y[2]
        hi == x[1] + y[1] + (lo \div 65536)
    IN  <<hi % 65536, lo % 65536>>

\* Rotate and shift right by n, 0 < n < 32.
RotR16(x, n) ==
    <<(x[1] \div 2^n) + (x[2] % 2^n) * 2^(16 - n),
      (x[2] \div 2^n) + (x[1] % 2^n) * 2^(16 - n)>>
RotR(x, n) ==
    IF n = 16 THEN <<x[2], x[1]>>
    ELSE IF n < 16 THEN RotR16(x, n)
    ELSE RotR16(<<x[2], x[1]>>, n - 16)
ShR(x, n) ==
    IF n < 16
    THEN <<x[1] \div 2^n, (x[2] \div 2^n) + (x[1] % 2^n) * 2^(16 - n)>>
    ELSE <<0, x[1] \div 2^(n - 16)>>

Ch(x, y, z)  == WXor(WAnd(x, y), WAnd(WNot(x), z))
Maj(x, y, z) == WXor(WXor(WAnd(x, y), WAnd(x, z)), WAnd(y, z))
BigSigma0(x)   == WXor(WXor(RotR(x, 2), RotR(x, 13)), RotR(x, 22))
BigSigma1(x)   == WXor(WXor(RotR(x, 6), RotR(x, 11)), RotR(x, 25))
SmallSigma0(x) == WXor(WXor(RotR(x, 7), RotR(x, 18)), ShR(x, 3))
SmallSigma1(x) == WXor(WXor(RotR(x, 17), RotR(x, 19)), ShR(x, 10))

\* The message, a 1 bit, zero bytes up to 56 mod 64, and the bit length as a
\* 64-bit big-endian number (messages here are far shorter than 2^28 bytes).
Zeros(n) == [i \in 1..n |-> 0]
Pad(msg) ==
    LET len == Len(msg)
        k   == (119 - (len % 64)) % 64
        bits == len * 8
    IN  msg \o <<128>> \o Zeros(k) \o Zeros(4) \o
        <<(bits \div 16777216) % 256, (bits \div 65536) % 256,
          (bits \div 256) % 256, bits % 256>>

\* The 16 big-endian words of block b (numbered from 0) of the padded message.
BlockWords(padded, b) ==
    [i \in 1..16 |->
        LET o == 64 * b + 4 * (i - 1)
        IN  <<padded[o + 1] * 256 + padded[o + 2],
              padded[o + 3] * 256 + padded[o + 4]>>]

RECURSIVE Schedule(_)
Schedule(w) ==
    IF Len(w) = 64 THEN w
    ELSE LET t == Len(w) + 1
         IN  Schedule(Append(w,
                 WAdd(WAdd(SmallSigma1(w[t - 2]), w[t - 7]),
                      WAdd(SmallSigma0(w[t - 15]), w[t - 16]))))

\* The 64 rounds on the working variables st = <<a, b, c, d, e, f, g, h>>.
\* (Len(st) = 8 always holds; testing it makes TLC evaluate each round's
\* variables before the next round starts.)
RECURSIVE Rounds(_, _, _)
Rounds(st, w, t) ==
    IF t > 64 \/ Len(st) # 8 THEN st
    ELSE LET t1 == WAdd(WAdd(WAdd(st[8], BigSigma1(st[5])),
                             WAdd(Ch(st[5], st[6], st[7]), SHA256_K[t])), w[t])
             t2 == WAdd(BigSigma0(st[1]), Maj(st[1], st[2], st[3]))
         IN  Rounds(<<WAdd(t1, t2), st[1], st[2], st[3],
                      WAdd(st[4], t1), st[5], st[6], st[7]>>, w, t + 1)

Compress(h, words) ==
    LET st == Rounds(h, Schedule(words), 1)
    IN  [i \in 1..8 |-> WAdd(h[i], st[i])]

RECURSIVE Blocks(_, _, _)
Blocks(h, padded, b) ==
    IF 64 * b >= Len(padded) THEN h
    ELSE Blocks(Compress(h, BlockWords(padded, b)), padded, b + 1)

\* sha256.update(data); sha256.digest(): the 32 bytes of the digest.
sha256(data) ==
    LET h == Blocks(SHA256_H0, Pad(data), 0)
    IN  [i \in 1..32 |->
            LET word == h[((i - 1) \div 4) + 1]
                j == (i - 1) % 4
            IN  IF j = 0 THEN word[1] \div 256
                ELSE IF j = 1 THEN word[1] % 256
                ELSE IF j = 2 THEN word[2] \div 256
                ELSE word[2] % 256]

\* ---------------------------------------------------------------- base64url
\* The URL-safe alphabet A-Z a-z 0-9 - _ as code points; 61 is "=".
B64Char(i) ==
    IF i < 26 THEN 65 + i
    ELSE IF i < 52 THEN 71 + i
    ELSE IF i < 62 THEN i - 4
    ELSE IF i = 62 THEN 45
    ELSE 95

\* base64.urlsafe_b64encode: three bytes to four characters, the last group
\* padded with "=".
RECURSIVE urlsafe_b64encode(_)
urlsafe_b64encode(bytes) ==
    IF Len(bytes) = 0 THEN <<>>
    ELSE IF Len(bytes) = 1 THEN
        <<B64Char(bytes[1] \div 4), B64Char((bytes[1] % 4) * 16), 61, 61>>
    ELSE IF Len(bytes) = 2 THEN
        <<B64Char(bytes[1] \div 4),
          B64Char((bytes[1] % 4) * 16 + (bytes[2] \div 16)),
          B64Char((bytes[2] % 16) * 4), 61>>
    ELSE
        <<B64Char(bytes[1] \div 4),
          B64Char((bytes[1] % 4) * 16 + (bytes[2] \div 16)),
          B64Char((bytes[2] % 16) * 4 + (bytes[3] \div 64)),
          B64Char(bytes[3] % 64)>>
        \o urlsafe_b64encode(SubSeq(bytes, 4, Len(bytes)))

\* bytes.decode(): UTF-8, here for one- and two-byte sequences (the encoder's
\* output is ASCII); any other byte decodes to 65533, the replacement
\* character, where Python raises UnicodeDecodeError.
RECURSIVE decode(_)
decode(bytes) ==
    IF Len(bytes) = 0 THEN <<>>
    ELSE IF bytes[1] < 128 THEN
        <<bytes[1]>> \o decode(SubSeq(bytes, 2, Len(bytes)))
    ELSE IF /\ bytes[1] >= 194 /\ bytes[1] < 224 /\ Len(bytes) >= 2
            /\ bytes[2] >= 128 /\ bytes[2] < 192 THEN
        <<(bytes[1] - 192) * 64 + (bytes[2] - 128)>>
        \o decode(SubSeq(bytes, 3, Len(bytes)))
    ELSE <<65533>> \o decode(SubSeq(bytes, 2, Len(bytes)))

\* ----------------------------------------------------------------- PKCE
\* create_code_challenge as it would be with .rstrip("=") forgotten.
create_code_challenge_padded(code_verifier, code_challenge_method) ==
    IF code_challenge_method = "plain" THEN
        [kind |-> "return", str |-> code_verifier]
    ELSE IF code_challenge_method = "S256" THEN
        [kind |-> "return",
         str |-> decode(urlsafe_b64encode(sha256(encode(code_verifier))))]
    ELSE [kind |-> "ValueError", str |-> <<>>]

\* create_code_challenge as it would be with the final else branch missing,
\* every method other than "S256" being treated as "plain".
create_code_challenge_lenient(code_verifier, code_challenge_method) ==
    IF code_challenge_method = "S256" THEN
        [kind |-> "return",
         str |-> rstrip(decode(urlsafe_b64encode(sha256(encode(code_verifier)))), 61)]
    ELSE [kind |-> "return", str |-> code_verifier]

\* WikidotIdPClient.create_code_challenge: the value returned, or the
\* ValueError raised.
create_code_challenge(code_verifier, code_challenge_method) ==
    IF code_challenge_method = "plain" THEN
        [kind |-> "return", str |-> code_verifier]
    ELSE IF code_challenge_method = "S256" THEN
        LET code_verifier_hash == sha256(encode(code_verifier))
            code_challenge_hash ==
                rstrip(decode(urlsafe_b64encode(code_verifier_hash)), 61)
        IN  [kind |-> "return", str |-> code_challenge_hash]
    ELSE [kind |-> "ValueError", str |-> <<>>]

\* ------------------------------------------------ identity-provider client
\* WikidotIdPClient.get_authorization_url: the f-string, as the endpoint
\* followed by the query parameters in the order they are written.
get_authorization_url(code_challenge_method, code_challenge, state) ==
    << <<"endpoint", "/authorize">>,
       <<"response_type", "code">>,
       <<"client_id", "client_id">>,
       <<"redirect_uri", "redirect_uri">>,
       <<"scope", "identify">>,
       <<"state", state>>,
       <<"code_challenge", code_challenge>>,
       <<"code_challenge_method", code_challenge_method>> >>

\* WikidotIdPClient.get_user, up to the httpx.post call.
get_user(c, code, code_verifier) ==
    Send(c, "get_user",
         [service  |-> "wd_idp",
          method   |-> "POST",
          endpoint |-> <<"/user">>,
          params   |-> NoParams,
          json     |-> [client_id     |-> "client_id",
                        client_secret |-> "client_secret",
                        code          |-> code,
                        code_verifier |-> code_verifier,
                        grant_type    |-> "authorization_code",
                        redirect_uri  |-> "redirect_uri"]])

\* ------------------------------------------------------ response bodies
\* What a service may put in a response body.  "not_json" is a body
\* response.json() cannot decode, "empty" is the JSON object {}.
NotJson   == [shape |-> "not_json"]
EmptyJson == [shape |-> "empty"]
NoValue   == [shape |-> "none"]

\* null for SiteMember.site_permission_level (Optional[PermissionLevel] = None)
None == 0

UrlBodies == {[shape |-> "url", url |-> t] : t \in Tokens}
MessageBodies == {[shape |-> "message", message |-> "ok"]}
RecheckBodies ==
    {[shape |-> "recheck", discord |-> DiscordAccountSchema(d), wikidot |-> ws] :
        d \in DiscordIds, ws \in SUBSET WikidotIds}
HasPermissionBodies ==
    {[shape |-> "has_permission", has_permission |-> b] : b \in BOOLEAN}
SiteMemberBodies ==
    {[shape |-> "SiteMember", site_permission_level |-> o,
      effective_permission_level |-> e] :
        o \in PermissionLevel \cup {None}, e \in PermissionLevel \cup {15}}
UserinfoBodies ==
    {[shape |-> "userinfo", id |-> w, name |-> <<"name", w>>,
      unix_name |-> <<"unix_name", w>>] : w \in WikidotIds}

Bodies(op) ==
    {NotJson, EmptyJson} \cup
    CASE op = "flow_start" -> UrlBodies
      [] op = "flow_recheck" -> RecheckBodies
      [] op = "check_site_member_permission" -> HasPermissionBodies
      [] op = "update_site_member_permission" -> SiteMemberBodies
      [] op = "get_user" -> UserinfoBodies
      [] OTHER -> MessageBodies

\* ----------------------------------------------------- what an op returns
Raise(kind, status) == [kind |-> kind, status |-> status, value |-> NoValue]
Return(value) == [kind |-> "return", status |-> 200, value |-> value]

\* pydantic's Model.model_validate(response.json()) for the schemas used.
FlowStartResponseSchema(body) ==
    IF body.shape = "url" THEN Return(body) ELSE Raise("ValidationError", 200)

FlowRecheckResponseSchema(body) ==
    IF body.shape = "recheck" THEN Return(body) ELSE Raise("ValidationError", 200)

\* SiteMember: site_permission_level is optional, effective_permission_level
\* is required, and both must be members of PermissionLevel when given.
SiteMember(body) ==
    IF /\ body.shape = "SiteMember"
       /\ body.site_permission_level \in PermissionLevel \cup {None}
       /\ body.effective_permission_level \in PermissionLevel
    THEN Return(body) ELSE Raise("ValidationError", 200)

\* response.json()["has_permission"]
has_permission(body) ==
    IF body.shape = "has_permission"
    THEN Return([shape |-> "bool", bool |-> body.has_permission])
    ELSE Raise("KeyError", 200)

\* WikidotUserClass(name=userinfo["name"], unix_name=..., id=userinfo["id"])
WikidotUserClass(body) ==
    IF body.shape = "userinfo"
    THEN Return([shape |-> "WikidotUserClass", name |-> body.name,
                 unix_name |-> body.unix_name, id |-> body.id])
    ELSE Raise("KeyError", 200)

\* The operations that wrap their request in try / except
\* httpx.HTTPStatusError; the handler is a bare `raise`.
Guarded ==
    {"change_site_member_privilege", "approve_application_request",
     "decline_application_request"}

\* Decode as it would be if those handlers returned an empty result in place
\* of raising again.
DecodeSwallowing(op, status, body) ==
    IF ~is_success(status) THEN
        IF op \in Guarded THEN [kind |-> "return", status |-> 200, value |-> EmptyJson]
        ELSE Raise("HTTPStatusError", status)
    ELSE IF body = NotJson THEN Raise("JSONDecodeError", status)
    ELSE CASE op = "flow_start" -> FlowStartResponseSchema(body)
           [] op = "flow_recheck" -> FlowRecheckResponseSchema(body)
           [] op = "check_site_member_permission" -> has_permission(body)
           [] op = "update_site_member_permission" -> SiteMember(body)
           [] op = "get_user" -> WikidotUserClass(body)
           [] OTHER -> Return(body)

\* The part of an operation after its request was answered: raise_for_status
\* in _make_request (in get_user for the identity provider), then
\* response.json() and the operation's own decoding.  The HTTPStatusError
\* carries the response and so its status code; the Guarded operations catch
\* it and raise it again unchanged.
Decode(op, status, body) ==
    IF ~is_success(status) THEN Raise("HTTPStatusError", status)
    ELSE IF body = NotJson THEN Raise("JSONDecodeError", status)
    ELSE CASE op = "flow_start" -> FlowStartResponseSchema(body)
           [] op = "flow_recheck" -> FlowRecheckResponseSchema(body)
           [] op = "check_site_member_permission" -> has_permission(body)
           [] op = "update_site_member_permission" -> SiteMember(body)
           [] op = "get_user" -> WikidotUserClass(body)
           [] OTHER -> Return(body)

\* The response arrives and the operation runs to its end.
Respond(c, status, body) ==
    /\ pc[c] = "sent"
    /\ body \in Bodies(request[c].op)
    /\ pc' = [pc EXCEPT ![c] = "done"]
    /\ response' = [response EXCEPT ![c] = [status_code |-> status]]
    /\ outcome' = [outcome EXCEPT ![c] = Decode(request[c].op, status, body)]
    /\ UNCHANGED request

\* No response within the timeout (30 s in _make_request, httpx's default in
\* get_user): client.request raises and nothing after it runs.
Timeout(c) ==
    /\ pc[c] = "sent"
    /\ pc' = [pc EXCEPT ![c] = "done"]
    /\ outcome' = [outcome EXCEPT ![c] = Raise("TimeoutException", 0)]
    /\ UNCHANGED <<request, response>>

\* The caller has its result and may call again.
Finish(c) ==
    /\ pc[c] = "done"
    /\ pc' = [pc EXCEPT ![c] = "idle"]
    /\ request' = [request EXCEPT ![c] = NoRequest]
    /\ response' = [response EXCEPT ![c] = NoResponse]
    /\ outcome' = [outcome EXCEPT ![c] = NoOutcome]

\* --------------------------------------------- operations without a request
\* The verifiers and methods handed to create_code_challenge: verifier t is
\* the string "ab..." of 42 + t characters (a verifier has at least 43), and
\* there is one with a character outside ASCII; the methods are the two the
\* function knows and two it does not.
Verifier(t) == [i \in 1..(42 + t) |-> 97 + ((i + t) % 26)]
Verifiers == {Verifier(t) : t \in Tokens} \cup {<<>>, <<233, 45, 95, 126>>}
Methods == {"plain", "S256", "s256", "S512"}

\* create_code_challenge and get_authorization_url make no request: the call
\* runs to its end in one step.
Local(c, op, args, result) ==
    /\ pc[c] = "idle"
    /\ pc' = [pc EXCEPT ![c] = "done"]
    /\ request' = [request EXCEPT ![c] = [op |-> op, req |-> args]]
    /\ outcome' = [outcome EXCEPT ![c] = result]
    /\ UNCHANGED response

\* create_code_challenge is a static method without state, so each of its
\* results is computed once and looked up by the calls.
ChallengeTable ==
    {<<v, m, create_code_challenge(v, m)>> : v \in Verifiers, m \in Methods}

CreateCodeChallenge(c, code_verifier, code_challenge_method) ==
    LET r == (CHOOSE t \in ChallengeTable :
                  t[1] = code_verifier /\ t[2] = code_challenge_method)[3]
    IN  Local(c, "create_code_challenge",
              [code_verifier |-> code_verifier,
               code_challenge_method |-> code_challenge_method],
              IF r.kind = "return"
              THEN Return([shape |-> "str", str |-> r.str])
              ELSE Raise(r.kind, 0))

GetAuthorizationUrl(c, code_challenge_method, code_challenge, state) ==
    Local(c, "get_authorization_url",
          [code_challenge_method |-> code_challenge_method,
           code_challenge |-> code_challenge, state |-> state],
          Return([shape |-> "url",
                  url |-> get_authorization_url(code_challenge_method,
                                                code_challenge, state)]))

\* ------------------------------------------------------------ specification
Sites     == {1}
Users     == {1}
Requests  == {1}
Actions   == {"promote", "resign"}

Next ==
    \E c \in Callers :
        \/ \E d \in DiscordIds : flow_start(c, d)
        \/ \E code \in Tokens, state \in Tokens : flow_callback(c, code, state)
        \/ \E d \in DiscordIds : flow_recheck(c, d)
        \/ \E d \in DiscordIds, w \in WikidotIds : unlink_account(c, d, w)
        \/ \E d \in DiscordIds, w \in WikidotIds : relink_account(c, d, w)
        \/ \E site \in Sites, user \in Users, level \in PermissionLevel :
              update_site_member_permission(c, site, user, level)
        \/ \E site \in Sites, user \in Users, level \in PermissionLevel :
              check_site_member_permission(c, site, user, level)
        \/ \E site \in Sites, user \in Users, action \in Actions :
              change_site_member_privilege(c, site, user, action)
        \/ \E rid \in Requests, reviewer \in Users :
              approve_application_request(c, rid, reviewer)
        \/ \E rid \in Requests, reviewer \in Users, reason \in DeclineReasonType :
              decline_application_request(c, rid, reviewer, reason)
        \/ \E code \in Tokens, verifier \in Tokens : get_user(c, code, verifier)
        \/ \E v \in Verifiers, m \in Methods : CreateCodeChallenge(c, v, m)
        \/ \E m \in {"plain", "S256"}, ch \in Tokens, state \in Tokens :
              GetAuthorizationUrl(c, m, ch, state)
        \/ \E status \in StatusCodes, body \in Bodies(request[c].op) :
              Respond(c, status, body)
        \/ Timeout(c)
        \/ Finish(c)

Spec == Init /\ [][Next]_vars

\* ---------------------------------------------------------------- claims
\* The calls of create_code_challenge that have run to their end.
ChallengeCalls(method) ==
    {c \in Callers : /\ pc[c] = "done"
                     /\ request[c].op = "create_code_challenge"
                     /\ request[c].req.code_challenge_method = method}

\* RFC 4648, section 5, read from the text to the bytes: the value of a
\* character of the URL-safe alphabet (-1 for any other character), and the
\* bytes an unpadded text stands for.
B64UrlValue(ch) ==
    IF ch >= 65 /\ ch <= 90 THEN ch - 65
    ELSE IF ch >= 97 /\ ch <= 122 THEN ch - 71
    ELSE IF ch >= 48 /\ ch <= 57 THEN ch + 4
    ELSE IF ch = 45 THEN 62
    ELSE IF ch = 95 THEN 63
    ELSE -1

RECURSIVE B64UrlBytes(_)
B64UrlBytes(str) ==
    IF Len(str) < 2 THEN <<>>
    ELSE LET a == B64UrlValue(str[1])
             b == B64UrlValue(str[2])
         IN  IF Len(str) = 2 THEN <<a * 4 + (b \div 16)>>
             ELSE LET c == B64UrlValue(str[3])
                  IN  IF Len(str) = 3
                      THEN <<a * 4 + (b \div 16), (b % 16) * 16 + (c \div 4)>>
                      ELSE <<a * 4 + (b \div 16), (b % 16) * 16 + (c \div 4),
                             (c % 4) * 64 + B64UrlValue(str[4])>>
                           \o B64UrlBytes(SubSeq(str, 5, Len(str)))

\* The unpadded base64url text of 32 bytes: 43 characters of the alphabet, no
\* "=", the two spare bits of the last character zero, standing for the bytes.
IsB64UrlOf(str, bytes) ==
    /\ Len(str) = 43
    /\ \A i \in 1..Len(str) : B64UrlValue(str[i]) >= 0 /\ str[i] # 61
    /\ B64UrlValue(str[43]) % 4 = 0
    /\ B64UrlBytes(str) = bytes

\* SHA-256 of the empty message in unpadded base64url,
\* "47DEQpj8HBSa-_TImW-5JCeuQeRkm5NMpJWZG3hSuFU".
EmptyVerifierChallenge ==
    <<52, 55, 68, 69, 81, 112, 106, 56, 72, 66, 83, 97, 45, 95, 84, 73, 109, 87, 45, 53, 74, 67, 101, 117, 81, 101, 82, 107, 109, 53, 78, 77, 112, 74, 87, 90, 71, 51, 104, 83, 117, 70, 85>>

\* The SHA-256 digest of the UTF-8 bytes of each verifier, computed once.
DigestTable == {<<v, sha256(encode(v))>> : v \in Verifiers}
Sha256OfUtf8(v) == (CHOOSE t \in DigestTable : t[1] = v)[2]

\* C11: every create_code_challenge(v, "S256") that has run returned, and
\* what it returned is a function of v alone: the unpadded base64url text
\* (43 characters, none of them "=") of the SHA-256 digest of v's UTF-8
\* bytes; for the empty verifier that is the known text above.
C11_S256IsBase64UrlOfSha256 ==
    \A c \in ChallengeCalls("S256") :
        LET v == request[c].req.code_verifier
        IN  /\ outcome[c].kind = "return"
            /\ IsB64UrlOf(outcome[c].value.str, Sha256OfUtf8(v))
            /\ v = <<>> => outcome[c].value.str = EmptyVerifierChallenge

\* C11 witness: an S256 challenge was made for a verifier of at least 43
\* characters.
C11_Witness ==
    \E c \in ChallengeCalls("S256") :
        /\ Len(request[c].req.code_verifier) >= 43
        /\ outcome[c].kind = "return"

\* C12: create_code_challenge(v, "plain") returned v itself, and a call with
\* a method that is neither "plain" nor "S256" raised the function's one
\* error (ValueError("invalid code_challenge_method"), the spec's
\* InvalidMethod) and returned no challenge.
C12_PlainIsIdentityOthersFail ==
    /\ \A c \in ChallengeCalls("plain") :
          /\ outcome[c].kind = "return"
          /\ outcome[c].value.str = request[c].req.code_verifier
    /\ \A m \in Methods \ {"plain", "S256"} :
          \A c \in ChallengeCalls(m) :
              /\ outcome[c].kind = "ValueError"
              /\ outcome[c].value = NoValue

\* C12 witness: a call with an unknown method has failed (the plain case is
\* reached the same way, one call earlier or later).
C12_Witness ==
    \E c \in ChallengeCalls("s256") :
        /\ outcome[c].kind = "ValueError"
        /\ Len(request[c].req.code_verifier) >= 43

\* The calls that made a request and have run to their end.
RemoteCalls ==
    {c \in Callers : /\ pc[c] = "done"
                     /\ request[c].op \notin {"create_code_challenge",
                                              "get_authorization_url"}}

====
